---- MODULE Spec2Model ----
(***************************************************************************)
(* Model of fire_notifier.py: the FireNotifier poll loop (start), the page *)
(* parser (get_fire_alerts), the interest / danger classification, the     *)
(* JSON dedupe store and the notifier acknowledgement handling.            *)
(* Texts are TLA+ strings; Python's str methods are modelled character by  *)
(* character on them.                                                      *)
(***************************************************************************)
EXTENDS Integers, Sequences, FiniteSets, TLC

(***************************************************************************)
(* Bounds of the exploration.                                              *)
(***************************************************************************)
MaxCycles == 3
MaxRestarts == 1

(***************************************************************************)
(* Python str primitives.                                                  *)
(***************************************************************************)
Ch(s, i) == SubSeq(s, i, i)

Whitespace == {" ", "\n", "\t", "\r"}

LowerLetters == "abcdefghijklmnopqrstuvwxyz"

UpperLetters == "ABCDEFGHIJKLMNOPQRSTUVWXYZ"

\* str.upper() / str.lower() on one character
UpperMap == [c \in {Ch(LowerLetters, i) : i \in 1..26} |->
                Ch(UpperLetters, CHOOSE i \in 1..26 : Ch(LowerLetters, i) = c)] @@ <<>>

LowerMap == [c \in {Ch(UpperLetters, i) : i \in 1..26} |->
                Ch(LowerLetters, CHOOSE i \in 1..26 : Ch(UpperLetters, i) = c)] @@ <<>>

UpperCh(c) == IF c \in DOMAIN UpperMap THEN UpperMap[c] ELSE c

LowerCh(c) == IF c \in DOMAIN LowerMap THEN LowerMap[c] ELSE c

RECURSIVE Upper(_)
Upper(s) == IF s = "" THEN "" ELSE UpperCh(Ch(s, 1)) \o Upper(SubSeq(s, 2, Len(s)))

RECURSIVE Lower(_)
Lower(s) == IF s = "" THEN "" ELSE LowerCh(Ch(s, 1)) \o Lower(SubSeq(s, 2, Len(s)))

\* str.capitalize(): first character upper-cased, the rest lower-cased
Capitalize(s) ==
    IF s = "" THEN "" ELSE UpperCh(Ch(s, 1)) \o Lower(SubSeq(s, 2, Len(s)))

RECURSIVE LStrip(_)
LStrip(s) ==
    IF s # "" /\ Ch(s, 1) \in Whitespace THEN LStrip(SubSeq(s, 2, Len(s))) ELSE s

RECURSIVE RStrip(_)
RStrip(s) ==
    IF s # "" /\ Ch(s, Len(s)) \in Whitespace
    THEN RStrip(SubSeq(s, 1, Len(s) - 1))
    ELSE s

\* str.strip()
Strip(s) == RStrip(LStrip(s))

StartsWith(s, p) == Len(p) <= Len(s) /\ SubSeq(s, 1, Len(p)) = p

\* str.replace(old, ""), old non-empty: leftmost non-overlapping occurrences
RECURSIVE Remove(_, _)
Remove(s, old) ==
    IF s = "" THEN ""
    ELSE IF StartsWith(s, old) THEN Remove(SubSeq(s, Len(old) + 1, Len(s)), old)
    ELSE Ch(s, 1) \o Remove(SubSeq(s, 2, Len(s)), old)

\* index of the first occurrence of sep in s at or after position i, 0 if none
RECURSIVE Find(_, _, _)
Find(s, sep, i) ==
    IF i + Len(sep) - 1 > Len(s) THEN 0
    ELSE IF SubSeq(s, i, i + Len(sep) - 1) = sep THEN i
    ELSE Find(s, sep, i + 1)

\* str.split(sep), sep non-empty: always at least one part
RECURSIVE Split(_, _)
Split(s, sep) ==
    LET k == Find(s, sep, 1)
    IN  IF k = 0 THEN <<s>>
        ELSE <<SubSeq(s, 1, k - 1)>> \o Split(SubSeq(s, k + Len(sep), Len(s)), sep)

\* end of the word of t that starts at or before position i
RECURSIVE WordEnd(_, _)
WordEnd(t, i) ==
    IF i > Len(t) \/ Ch(t, i) \in Whitespace THEN i - 1 ELSE WordEnd(t, i + 1)

\* str.split() without argument: the maximal runs of non-whitespace
RECURSIVE Words(_)
Words(s) ==
    LET t == LStrip(s)
        e == WordEnd(t, 1)
    IN  IF t = "" THEN <<>>
        ELSE <<SubSeq(t, 1, e)>> \o Words(SubSeq(t, e + 1, Len(t)))

\* sep.join(parts)
RECURSIVE Join(_, _)
Join(parts, sep) ==
    IF parts = <<>> THEN ""
    ELSE IF Len(parts) = 1 THEN parts[1]
    ELSE parts[1] \o sep \o Join(Tail(parts), sep)

\* the Python expression  t in s
IsSubstr(t, s) == \E i \in 1..(Len(s) - Len(t) + 1) : SubSeq(s, i, i + Len(t) - 1) = t

(***************************************************************************)
(* FireNotifierHelper                                                      *)
(***************************************************************************)
split_and_capitalize_text(text) ==
    LET text_split == Split(text, ",")
    IN  [i \in 1..Len(text_split) |-> Capitalize(Strip(text_split[i]))]

capitalize_per_word(text) ==
    LET words == Words(text)
    IN  Join([i \in 1..Len(words) |-> Capitalize(words[i])], " ")

clean_text(text) == Remove(Remove(Remove(Strip(text), "\n"), "\t"), "\r")

(***************************************************************************)
(* FireNotifier: class constants                                           *)
(***************************************************************************)
FIRST_ALARM == "1ST ALARM"
SECOND_ALARM == "2ND ALARM"
THIRD_ALARM == "3RD ALARM"
FOURTH_ALARM == "4TH ALARM"
FIFTH_ALARM == "5TH ALARM"
POSSITIVE_ALARM == "POSSITIVE ALARM"
GAS_STOVE_FIRE == "GAS STOVE FIRE"
ELECTRICAL_FIRE == "ELECTRICAL FIRE"
VEHICULAR_FIRE == "VEHICULAR FIRE"
FIRE_UNDER_CONTROL == "FIRE UNDER CONTROL"
RUBBISH_FIRE == "RUBBISH FIRE"
CEILING_FIRE == "CEILING FIRE"
FOR_VERIFICATION == "FOR VERIFICATION"
VISIBLE_SMOKE == "VISIBLE SMOKE"
FALSE_ALARM == "FALSE ALARM"
FIRE_OUT == "FIRE OUT"
POSITIVE_ALARM == "POSITIVE ALARM"
NEGATIVE_ALARM == "NEGATIVE ALARM"
POST_FIRE == "POST FIRE"
KITCHEN_FIRE == "KITCHEN FIRE"
MATRESS_FIRE == "MATRESS FIRE"

\* the danger list with FIRE UNDER CONTROL among its members
WARN_ALARMS_with_under_control ==
    << FIRST_ALARM, SECOND_ALARM, THIRD_ALARM, FOURTH_ALARM, FIFTH_ALARM,
       POSSITIVE_ALARM, GAS_STOVE_FIRE, ELECTRICAL_FIRE, VEHICULAR_FIRE,
       FIRE_UNDER_CONTROL, RUBBISH_FIRE, CEILING_FIRE, VISIBLE_SMOKE,
       POSITIVE_ALARM, POST_FIRE, KITCHEN_FIRE, MATRESS_FIRE, FOR_VERIFICATION >>

WARN_ALARMS ==
    << FIRST_ALARM, SECOND_ALARM, THIRD_ALARM, FOURTH_ALARM, FIFTH_ALARM,
       POSSITIVE_ALARM, GAS_STOVE_FIRE, ELECTRICAL_FIRE, VEHICULAR_FIRE,
       RUBBISH_FIRE, CEILING_FIRE, VISIBLE_SMOKE, POSITIVE_ALARM, POST_FIRE,
       KITCHEN_FIRE, MATRESS_FIRE, FOR_VERIFICATION >>

\* the Python expression  x in list
InList(x, list) == \E i \in 1..Len(list) : list[i] = x

(***************************************************************************)
(* get_fire_alerts: one "cardfire" block is the sequence of the texts of   *)
(* its <p> elements.  A result is the parsed record, or the exception the  *)
(* block raises.                                                           *)
(***************************************************************************)
NoError == "none"

\* ParseBlock taking the text before the first "!" as the location
ParseBlock_text_before_bang(fire_alert) ==
    LET fire_alert_info == Remove(clean_text(fire_alert[1]), "->")
        fire_alert_parts == Split(fire_alert_info, ":")
        bang == Split(fire_alert_parts[1], "!")
        alert_info0 == IF Len(fire_alert_parts) = 2 THEN bang[1]
                       ELSE Strip(fire_alert_parts[1])
        alert_type0 == IF Len(fire_alert_parts) = 2 THEN fire_alert_parts[2]
                       ELSE "UNKNOWN"
        time_parts == Split(clean_text(fire_alert[2]), "As of ")
        alert_info == Remove(Strip(alert_info0), "FIRE ALERT!")
        alert_type == Strip(alert_type0)
        alert_time == Strip(time_parts[2])
    IN  IF Len(fire_alert) < 1 THEN [error |-> "IndexError"]
        ELSE IF Len(fire_alert_parts) = 2 /\ Len(bang) < 2 THEN [error |-> "IndexError"]
        ELSE IF Len(fire_alert) < 2 THEN [error |-> "IndexError"]
        ELSE IF Len(time_parts) < 2 THEN [error |-> "IndexError"]
        ELSE [error |-> NoError,
              alert |-> [alert_info |-> Upper(alert_info),
                         alert_type |-> Upper(alert_type),
                         alert_time |-> Upper(alert_time)]]

ParseBlock(fire_alert) ==
    LET fire_alert_info == Remove(clean_text(fire_alert[1]), "->")
        fire_alert_parts == Split(fire_alert_info, ":")
        bang == Split(fire_alert_parts[1], "!")
        alert_info0 == IF Len(fire_alert_parts) = 2 THEN bang[2]
                       ELSE Strip(fire_alert_parts[1])
        alert_type0 == IF Len(fire_alert_parts) = 2 THEN fire_alert_parts[2]
                       ELSE "UNKNOWN"
        time_parts == Split(clean_text(fire_alert[2]), "As of ")
        alert_info == Remove(Strip(alert_info0), "FIRE ALERT!")
        alert_type == Strip(alert_type0)
        alert_time == Strip(time_parts[2])
    IN  IF Len(fire_alert) < 1 THEN [error |-> "IndexError"]
        ELSE IF Len(fire_alert_parts) = 2 /\ Len(bang) < 2 THEN [error |-> "IndexError"]
        ELSE IF Len(fire_alert) < 2 THEN [error |-> "IndexError"]
        ELSE IF Len(time_parts) < 2 THEN [error |-> "IndexError"]
        ELSE [error |-> NoError,
              alert |-> [alert_info |-> Upper(alert_info),
                         alert_type |-> Upper(alert_type),
                         alert_time |-> Upper(alert_time)]]

\* the for loop of get_fire_alerts over the blocks of the page, in page order
RECURSIVE ParseBlocks(_, _)
ParseBlocks(fire_alerts, parsed) ==
    IF fire_alerts = <<>> THEN [error |-> NoError, data |-> parsed]
    ELSE LET r == ParseBlock(Head(fire_alerts))
         IN  IF r.error # NoError THEN [error |-> r.error, data |-> <<>>]
             ELSE ParseBlocks(Tail(fire_alerts), Append(parsed, r.alert))

\* is_match_found_in_alert_info without the lower() of line 345
is_match_found_in_alert_info_case_sensitive(term_text, alert_info) ==
    LET search_terms == split_and_capitalize_text(term_text)
    IN  \E i \in 1..Len(search_terms) :
            IsSubstr(search_terms[i], Strip(alert_info))

is_match_found_in_alert_info(term_text, alert_info) ==
    LET search_terms == split_and_capitalize_text(term_text)
    IN  \E i \in 1..Len(search_terms) :
            IsSubstr(Lower(search_terms[i]), Lower(Strip(alert_info)))

\* check_fire_alert_in_db comparing whole records instead of alert_time
check_fire_alert_in_db_whole_record(stored, alert_data) ==
    \E i \in 1..Len(stored) : stored[i] = alert_data

\* the loop of check_fire_alert_in_db over the loaded store
check_fire_alert_in_db(stored, alert_data) ==
    \E i \in 1..Len(stored) : stored[i].alert_time = alert_data.alert_time

\* the message of line 276 without the alert_time line
notification_message_no_time(alert) ==
    capitalize_per_word(alert.alert_type) \o "\n"
        \o capitalize_per_word(alert.alert_info)

notification_message(alert) ==
    capitalize_per_word(alert.alert_type) \o "\n"
        \o capitalize_per_word(alert.alert_info) \o "\n" \o alert.alert_time

(***************************************************************************)
(* Inputs of the exploration: pages served by the source, configurations   *)
(* of the process, and the store found on disk at the first start.         *)
(***************************************************************************)
B_QC == <<"\n FIRE ALERT! Quezon City : 2nd Alarm \n", "As of 10:00 AM">>
B_MK == <<"FIRE ALERT! Makati -> Ayala : 3RD ALARM", "As of 10:00 AM">>
B_OUT == <<"FIRE ALERT! MAKATI : FIRE OUT", "As of 11:30 AM">>
B_MK5 == <<"FIRE ALERT! MAKATI : 5TH ALARM", "\tAs of 11:30 AM">>
B_NOCOLON == <<"FIRE ALERT! PASIG STRUCTURAL FIRE", "As of 9:15 PM">>
B_NOP == <<>>
B_ONEP == <<"FIRE ALERT! MAKATI : 1ST ALARM">>
B_NOPREFIX == <<"FIRE ALERT! MAKATI : 1ST ALARM", "10:00 AM">>
B_NOBANG == <<"MAKATI : 1ST ALARM", "As of 10:00 AM">>

Pages ==
    { <<>>, <<B_QC>>, <<B_MK>>, <<B_OUT, B_QC>>, <<B_MK5, B_OUT>>, <<B_NOCOLON>>,
      <<B_QC, B_NOP>>, <<B_ONEP, B_QC>>, <<B_QC, B_NOPREFIX>>, <<B_NOBANG, B_MK>> }

\* every alert type the source names (lines 138-158)
AlertTypes ==
    { FIRST_ALARM, SECOND_ALARM, THIRD_ALARM, FOURTH_ALARM, FIFTH_ALARM,
      POSSITIVE_ALARM, GAS_STOVE_FIRE, ELECTRICAL_FIRE, VEHICULAR_FIRE,
      FIRE_UNDER_CONTROL, RUBBISH_FIRE, CEILING_FIRE, FOR_VERIFICATION,
      VISIBLE_SMOKE, FALSE_ALARM, FIRE_OUT, POSITIVE_ALARM, NEGATIVE_ALARM,
      POST_FIRE, KITCHEN_FIRE, MATRESS_FIRE }

\* the parts of a first line "<head>!<location>:<category>" of a block
Heads == {"FIRE ALERT", "QUEZON CITY"}

Locations == {" Quezon City ", " Makati -> Ayala ", " ... ", " "}

Categories ==
    { " " \o t : t \in AlertTypes }
        \cup {" UNKNOWN", " SECOND ALARM", " 2nd alarm ", ""}

\* first lines of other shapes: no colon, no colon and no "!", two colons,
\* two "!", a colon and no "!", nothing after "FIRE ALERT!"
OddFirstLines ==
    { "FIRE ALERT! PASIG STRUCTURAL FIRE", "Pasig structural fire",
      "FIRE ALERT! MAKATI : GATE 2 : 2ND ALARM",
      "FIRE ALERT! PASIG ! ORTIGAS : 1ST ALARM",
      "MAKATI : 1ST ALARM", "FIRE ALERT!" }

FirstLines ==
    { h \o "!" \o l \o ":" \o c : h \in Heads, l \in Locations, c \in Categories }
        \cup OddFirstLines

\* second lines of a block
TimeLines == {"As of 10:00 AM", "\tAs of 9:15 pm\n", "As of As of 10:00 AM"}

\* pages of one block
BlockPages == { << <<first, second>> >> : first \in FirstLines, second \in TimeLines }

\* lines 304-339 applied to each page the source serves
Parsed == [p \in Pages \cup BlockPages |-> ParseBlocks(p, <<>>)] @@ <<>>

\* what requests.get can answer: a transport exception, a response that is
\* not ok, or an ok response carrying a page
Responses ==
    { [status |-> "exception", page |-> <<>>], [status |-> "not_ok", page |-> <<>>] }
        \cup { [status |-> "ok", page |-> p] : p \in Pages }

\* get_fire_alerts without the try/except around requests.get
get_fire_alerts_uncaught(response) ==
    IF response.status = "exception" THEN [error |-> "ConnectionError", data |-> <<>>]
    ELSE IF response.status = "not_ok" THEN [error |-> NoError, data |-> <<>>]
    ELSE Parsed[response.page]

get_fire_alerts(response) ==
    IF response.status = "exception" THEN [error |-> NoError, data |-> <<>>]
    ELSE IF response.status = "not_ok" THEN [error |-> NoError, data |-> <<>>]
    ELSE Parsed[response.page]

SearchTerms == {"", "Makati"}

\* values of SEARCH_TERM with one term, several terms, blanks around the
\* commas, a trailing comma
InterestTerms ==
    {"", "Makati", "qc, makati", "AYALA ,pasig", "Pasay,", "quezon  city", "Taguig"}

\* PUSHOVER_TOKEN / PUSHOVER_USER ("" when unset), notifier_type, and whether
\* a notifier object is passed to the constructor
Configs ==
    { [token |-> "t0ken", user |-> "u5er", notifier_type |-> "pushover", notifier |-> FALSE],
      [token |-> "",      user |-> "u5er", notifier_type |-> "pushover", notifier |-> FALSE],
      [token |-> "t0ken", user |-> "",     notifier_type |-> "pushover", notifier |-> FALSE],
      [token |-> "t0ken", user |-> "u5er", notifier_type |-> "telegram", notifier |-> FALSE],
      [token |-> "",      user |-> "",     notifier_type |-> "telegram", notifier |-> TRUE] }

OLD_ALERT == [alert_info |-> "PASAY", alert_type |-> "1ST ALARM", alert_time |-> "11:30 AM"]

\* the store file before the first start: absent, or left by an earlier run
InitialStores == { [file |-> "absent", data |-> <<>>],
                   [file |-> "valid", data |-> <<OLD_ALERT>>] }

NoAlert == [alert_info |-> "", alert_type |-> "", alert_time |-> ""]

(***************************************************************************)
(* State                                                                   *)
(***************************************************************************)
VARIABLES
    pc,           \* position of the process: "init", "sleep", "fetch",
                  \* "classify", "dedupe", "notify", "persist", "crashed"
    error,        \* what ended the process, NoError while it runs
    search_term,  \* self.search_term
    config,       \* notifier configuration of the process
    file,         \* the store file: "absent", "valid" (holds the JSON of db)
                  \* or "corrupt" (truncated or partly written)
    db,           \* the list the store file holds; empty unless file is valid
    recent_fire_alert,   \* the candidate of the current cycle
    http,         \* outcome of the last requests.get
    ack,          \* outcome of the last send_message: "ok", "not_ok", "None"
    message,      \* the text of the last send_message
    log,          \* the log lines of the current cycle
    cycles,       \* number of sleeps completed
    restarts,     \* number of process restarts
    calls,        \* number of send_message calls
    cycle_calls,  \* number of send_message calls of the current cycle
    store_before, \* the store as it was when the current cycle began
    unacked,      \* candidates whose latest send was not acknowledged ok
    fetch_failed, \* some fetch of this process failed
    page          \* the blocks of the page the current cycle fetched

vars == << pc, error, search_term, config, file, db, recent_fire_alert, http,
           ack, message, log, cycles, restarts, calls, cycle_calls,
           store_before, unacked, fetch_failed, page >>

Store(f, d) == [file |-> f, data |-> d]

Init ==
    /\ pc = "init"
    /\ error = NoError
    /\ search_term \in SearchTerms
    /\ config \in Configs
    /\ \E st \in InitialStores : file = st.file /\ db = st.data
    /\ recent_fire_alert = NoAlert
    /\ http = "none"
    /\ ack = "none"
    /\ message = ""
    /\ log = <<>>
    /\ cycles = 0
    /\ restarts = 0
    /\ calls = 0
    /\ cycle_calls = 0
    /\ store_before = Store(file, db)
    /\ unacked = {}
    /\ fetch_failed = FALSE
    /\ page = <<>>

\* an uncaught exception leaves start (or __init__) and ends the process
Raise(e) == pc' = "crashed" /\ error' = e

(***************************************************************************)
(* FireNotifier.__init__ followed by main's call of start                  *)
(***************************************************************************)
\* NotifierError without the assert on self.user of lines 59-62
NotifierError_user_unchecked(cfg) ==
    IF cfg.notifier THEN NoError
    ELSE IF cfg.notifier_type # "pushover" THEN "ValueError"
    ELSE IF cfg.token = "" THEN "AssertionError"
    ELSE NoError

\* PushoverNotifier.__init__ / set_default_notifier: the exception raised
NotifierError(cfg) ==
    IF cfg.notifier THEN NoError
    ELSE IF cfg.notifier_type # "pushover" THEN "ValueError"
    ELSE IF cfg.token = "" THEN "AssertionError"
    ELSE IF cfg.user = "" THEN "AssertionError"
    ELSE NoError

\* __init__ writing the empty list whether or not the file exists
InitStore_always_reset(f, d) == Store("valid", <<>>)

\* lines 198-200: the store file after construction
InitStore(f, d) == IF f = "absent" THEN Store("valid", <<>>) ELSE Store(f, d)

Construct ==
    /\ pc = "init"
    /\ file' = InitStore(file, db).file
    /\ db' = InitStore(file, db).data
    /\ store_before' = InitStore(file, db)
    /\ IF NotifierError(config) # NoError
       THEN Raise(NotifierError(config))
       ELSE pc' = "sleep" /\ error' = NoError
    /\ UNCHANGED << search_term, config, recent_fire_alert, http, ack, message,
                    log, cycles, restarts, calls, cycle_calls, unacked,
                    fetch_failed, page >>

(***************************************************************************)
(* FireNotifier.start, one action per phase of a cycle                     *)
(***************************************************************************)
\* line 230: time.sleep(self.delay) returns
Sleep ==
    /\ pc = "sleep"
    /\ cycles < MaxCycles
    /\ cycles' = cycles + 1
    /\ pc' = "fetch"
    /\ log' = <<>>
    /\ recent_fire_alert' = NoAlert
    /\ cycle_calls' = 0
    /\ store_before' = Store(file, db)
    /\ page' = <<>>
    /\ UNCHANGED << error, search_term, config, file, db, http, ack, message,
                    restarts, calls, unacked, fetch_failed >>

\* FetchResponse selecting the last record of the parse result
FetchResponse_last_record(response) ==
    LET r == get_fire_alerts(response)
        fetchlog == IF response.status = "ok" THEN <<>>
                    ELSE <<"WARNING Failed to get response">>
    IN  /\ http' = response.status
        /\ page' = response.page
        /\ fetch_failed' = (fetch_failed \/ response.status # "ok")
        /\ IF r.error # NoError
           THEN /\ Raise(r.error)
                /\ UNCHANGED << recent_fire_alert, log >>
           ELSE IF r.data = <<>>
           THEN /\ log' = fetchlog \o <<"WARNING No fire alerts found!">>
                /\ pc' = "sleep"
                /\ UNCHANGED << recent_fire_alert, error >>
           ELSE /\ recent_fire_alert' = r.data[Len(r.data)]
                /\ log' = <<"INFO Recent Fire Alert">>
                /\ pc' = "classify"
                /\ UNCHANGED error
        /\ UNCHANGED << search_term, config, file, db, ack, message, cycles,
                        restarts, calls, cycle_calls, store_before, unacked >>

\* lines 231-247 for one answer of requests.get: get_fire_alerts, the empty
\* check, the candidate selection
FetchResponse(response) ==
    LET r == get_fire_alerts(response)
        fetchlog == IF response.status = "ok" THEN <<>>
                    ELSE <<"WARNING Failed to get response">>
    IN  /\ http' = response.status
        /\ page' = response.page
        /\ fetch_failed' = (fetch_failed \/ response.status # "ok")
        /\ IF r.error # NoError
           THEN /\ Raise(r.error)
                /\ UNCHANGED << recent_fire_alert, log >>
           ELSE IF r.data = <<>>
           THEN /\ log' = fetchlog \o <<"WARNING No fire alerts found!">>
                /\ pc' = "sleep"
                /\ UNCHANGED << recent_fire_alert, error >>
           ELSE /\ recent_fire_alert' = r.data[1]
                /\ log' = <<"INFO Recent Fire Alert">>
                /\ pc' = "classify"
                /\ UNCHANGED error
        /\ UNCHANGED << search_term, config, file, db, ack, message, cycles,
                        restarts, calls, cycle_calls, store_before, unacked >>

\* line 231 in the poll loop: the source answers with any of Responses
Fetch ==
    /\ pc = "fetch"
    /\ \E response \in Responses : FetchResponse(response)

\* Classify without the danger check of lines 264-266
Classify_no_danger_check ==
    /\ pc = "classify"
    /\ IF ~is_match_found_in_alert_info(search_term, recent_fire_alert.alert_info)
       THEN /\ log' = Append(log, "INFO Search term not found")
            /\ pc' = "sleep"
       ELSE /\ pc' = "dedupe"
            /\ UNCHANGED log
    /\ UNCHANGED << error, search_term, config, file, db, recent_fire_alert,
                    http, ack, message, cycles, restarts, calls, cycle_calls,
                    store_before, unacked, fetch_failed, page >>

\* lines 249-266: interest match, then danger classification
Classify ==
    /\ pc = "classify"
    /\ IF ~is_match_found_in_alert_info(search_term, recent_fire_alert.alert_info)
       THEN /\ log' = Append(log, "INFO Search term not found")
            /\ pc' = "sleep"
       ELSE IF ~InList(recent_fire_alert.alert_type, WARN_ALARMS)
       THEN /\ log' = Append(log, "INFO Alert type is not dangerous!")
            /\ pc' = "sleep"
       ELSE /\ pc' = "dedupe"
            /\ UNCHANGED log
    /\ UNCHANGED << error, search_term, config, file, db, recent_fire_alert,
                    http, ack, message, cycles, restarts, calls, cycle_calls,
                    store_before, unacked, fetch_failed, page >>

\* open(self.json_db_path, "r") and json.load: the exception raised for the
\* file state f when the operating system answers io ("ok" or "fail")
ReadError(f, io) ==
    IF io = "fail" \/ f = "absent" THEN "OSError"
    ELSE IF f = "corrupt" THEN "JSONDecodeError"
    ELSE NoError

\* Dedupe without the continue of line 273
Dedupe_no_continue ==
    /\ pc = "dedupe"
    /\ \E io \in {"ok", "fail"} :
        IF ReadError(file, io) # NoError
        THEN Raise(ReadError(file, io)) /\ UNCHANGED log
        ELSE /\ log' = IF check_fire_alert_in_db(db, recent_fire_alert)
                       THEN Append(log, "INFO already sent!")
                       ELSE log
             /\ pc' = "notify"
             /\ UNCHANGED error
    /\ UNCHANGED << search_term, config, file, db, recent_fire_alert, http,
                    ack, message, cycles, restarts, calls, cycle_calls,
                    store_before, unacked, fetch_failed, page >>

\* lines 268-273: check_fire_alert_in_db
Dedupe ==
    /\ pc = "dedupe"
    /\ \E io \in {"ok", "fail"} :
        IF ReadError(file, io) # NoError
        THEN Raise(ReadError(file, io)) /\ UNCHANGED log
        ELSE IF check_fire_alert_in_db(db, recent_fire_alert)
        THEN /\ log' = Append(log, "INFO already sent!")
             /\ pc' = "sleep"
             /\ UNCHANGED error
        ELSE /\ pc' = "notify"
             /\ UNCHANGED << error, log >>
    /\ UNCHANGED << search_term, config, file, db, recent_fire_alert, http,
                    ack, message, cycles, restarts, calls, cycle_calls,
                    store_before, unacked, fetch_failed, page >>

\* PushoverNotifier.send_message, lines 94-99: post answers "ok" or "not_ok",
\* or raises ("exception"); the value returned and the line logged
send_message(post) ==
    IF post = "exception"
    THEN [response |-> "None", log |-> <<"ERROR Failed to send pushover message!">>]
    ELSE [response |-> post, log |-> <<>>]

\* lines 280-287: what start does with the response of send_message
HandleResponse(response) ==
    IF response = "ok"
    THEN [error |-> NoError, next |-> "persist", log |-> <<"INFO Notified!">>]
    ELSE IF response = "None"
    THEN [error |-> "AttributeError", next |-> "crashed", log |-> <<>>]
    ELSE [error |-> NoError, next |-> "sleep",
          log |-> <<"WARNING Failed to send notification!">>]

\* lines 275-287: send_message and the handling of its response
Notify ==
    /\ pc = "notify"
    /\ \E post \in {"ok", "not_ok", "exception"} :
        LET sent == send_message(post)
            h == HandleResponse(sent.response)
        IN  /\ ack' = sent.response
            /\ message' = notification_message(recent_fire_alert)
            /\ calls' = calls + 1
            /\ cycle_calls' = cycle_calls + 1
            /\ log' = log \o sent.log \o h.log
            /\ pc' = h.next
            /\ error' = h.error
            /\ unacked' = IF sent.response = "ok"
                          THEN unacked \ {recent_fire_alert}
                          ELSE unacked \cup {recent_fire_alert}
    /\ UNCHANGED << search_term, config, file, db, recent_fire_alert, http,
                    cycles, restarts, store_before, fetch_failed, page >>

\* add_fire_alert_to_db: the store it leaves and the exception it raises,
\* when the read answers rd ("ok", "fail") and the write answers wr: "ok",
\* "open_fail" (open(..., "w") raises), "dump_fail" (the file is truncated,
\* then json.dump or the close raises) or "killed" (the process is killed
\* between the truncation and the close)
add_fire_alert_to_db(f, d, alert_data, rd, wr) ==
    IF ReadError(f, rd) # NoError
    THEN [store |-> Store(f, d), error |-> ReadError(f, rd)]
    ELSE IF wr = "open_fail" THEN [store |-> Store(f, d), error |-> "OSError"]
    ELSE IF wr = "dump_fail" THEN [store |-> Store("corrupt", <<>>), error |-> "OSError"]
    ELSE IF wr = "killed" THEN [store |-> Store("corrupt", <<>>), error |-> "Killed"]
    ELSE [store |-> Store("valid", Append(d, alert_data)), error |-> NoError]

\* line 285
Persist ==
    /\ pc = "persist"
    /\ \E rd \in {"ok", "fail"}, wr \in {"ok", "open_fail", "dump_fail", "killed"} :
        LET r == add_fire_alert_to_db(file, db, recent_fire_alert, rd, wr)
        IN  /\ rd = "fail" => wr = "ok"
            /\ file' = r.store.file
            /\ db' = r.store.data
            /\ IF r.error # NoError THEN Raise(r.error)
               ELSE pc' = "sleep" /\ UNCHANGED error
    /\ UNCHANGED << search_term, config, recent_fire_alert, http, ack, message,
                    log, cycles, restarts, calls, cycle_calls, store_before,
                    unacked, fetch_failed, page >>

\* the process has ended (by its exception or by a kill at any point) and
\* main runs again on the same store path
Restart ==
    /\ pc # "init"
    /\ restarts < MaxRestarts
    /\ restarts' = restarts + 1
    /\ pc' = "init"
    /\ error' = NoError
    /\ recent_fire_alert' = NoAlert
    /\ http' = "none"
    /\ ack' = "none"
    /\ message' = ""
    /\ log' = <<>>
    /\ cycle_calls' = 0
    /\ fetch_failed' = FALSE
    /\ store_before' = Store(file, db)
    /\ page' = <<>>
    /\ UNCHANGED << search_term, config, file, db, cycles, calls, unacked >>

Next ==
    \/ Construct
    \/ Sleep
    \/ Fetch
    \/ Classify
    \/ Dedupe
    \/ Notify
    \/ Persist
    \/ Restart

Spec == Init /\ [][Next]_vars

(***************************************************************************)
(* One cycle of start on a page of one block: the process was constructed  *)
(* with a working notifier and an empty store, the first sleep has         *)
(* returned, and the source serves the page held in page.                  *)
(***************************************************************************)
InitCycle ==
    /\ pc = "fetch"
    /\ error = NoError
    /\ search_term \in InterestTerms
    /\ config = [token |-> "t0ken", user |-> "u5er",
                 notifier_type |-> "pushover", notifier |-> FALSE]
    /\ file = "valid"
    /\ db = <<>>
    /\ recent_fire_alert = NoAlert
    /\ http = "none"
    /\ ack = "none"
    /\ message = ""
    /\ log = <<>>
    /\ cycles = 1
    /\ restarts = 0
    /\ calls = 0
    /\ cycle_calls = 0
    /\ store_before = Store("valid", <<>>)
    /\ unacked = {}
    /\ fetch_failed = FALSE
    /\ page \in BlockPages

\* line 231 when requests.get answers ok with the page held in page
FetchServed ==
    /\ pc = "fetch"
    /\ FetchResponse([status |-> "ok", page |-> page])

NextCycle ==
    \/ FetchServed
    \/ Classify
    \/ Dedupe
    \/ Notify
    \/ Persist

SpecCycle == InitCycle /\ [][NextCycle]_vars

(***************************************************************************)
(* Properties                                                              *)
(***************************************************************************)
IsPrefix(s, t) == Len(s) <= Len(t) /\ SubSeq(t, 1, Len(s)) = s

\* some stored record of the list has the alert_time of the alert
SameTimeStored(stored, alert) ==
    \E i \in 1..Len(stored) : stored[i].alert_time = alert.alert_time

Matches(alert) == is_match_found_in_alert_info(search_term, alert.alert_info)

Dangerous(alert) == InList(alert.alert_type, WARN_ALARMS)

\* C1: every step in which send_message is called and its result is not ok
\* (a non-ok response, or None after a transport exception) logs the
\* failure, leaves the store as it is and takes the loop to the next sleep
\* without an exception.
C1_NotifyFailureContinues ==
    [][(calls' # calls /\ ack' # "ok")
            => /\ pc' = "sleep"
               /\ error' = NoError
               /\ Len(log') > Len(log)
               /\ UNCHANGED << file, db >>]_vars

\* C2: no two records of the dedupe store have the same alert_time.
C2_UniqueAlertTime ==
    \A i, j \in 1..Len(db) : i # j => db[i].alert_time # db[j].alert_time

\* the store holds two records and the last cycle skipped a candidate whose
\* alert_time was already stored
C2_Witness ==
    /\ Len(db) >= 2
    /\ pc = "sleep"
    /\ cycle_calls = 0
    /\ recent_fire_alert # NoAlert
    /\ Matches(recent_fire_alert) /\ Dangerous(recent_fire_alert)
    /\ SameTimeStored(db, recent_fire_alert)

\* C3: a step calls the notifier only if the candidate matches the interest
\* terms, its category is in the danger list and no stored record has its
\* alert_time (whatever the location or category of that stored record).
C3_NotifyOnlyNewDangerousMatch ==
    [][calls' # calls
            => /\ recent_fire_alert # NoAlert
               /\ Matches(recent_fire_alert)
               /\ Dangerous(recent_fire_alert)
               /\ file = "valid"
               /\ \A i \in 1..Len(db) :
                      db[i].alert_time # recent_fire_alert.alert_time]_vars

\* a matching dangerous candidate ended its cycle without a notifier call
\* because a stored record with another location has its alert_time
C3_Witness ==
    /\ pc = "sleep"
    /\ cycles >= 2
    /\ cycle_calls = 0
    /\ recent_fire_alert # NoAlert
    /\ Matches(recent_fire_alert) /\ Dangerous(recent_fire_alert)
    /\ \E i \in 1..Len(db) :
          /\ db[i].alert_time = recent_fire_alert.alert_time
          /\ db[i].alert_info # recent_fire_alert.alert_info
          /\ db[i].alert_type # recent_fire_alert.alert_type
          /\ db[i] # OLD_ALERT

\* C4: the store changes only by the append of the candidate after an ok
\* acknowledgement in the same cycle, a cycle that completes after an ok
\* acknowledgement has appended the notified record exactly once, and no
\* step removes or rewrites a stored record or makes the store unreadable
\* (the stored sequence only grows by suffix extension).
C4_StoreAppendOnly ==
    [][/\ IsPrefix(db, db')
       /\ file = "valid" => file' = "valid"
       /\ db' # db => /\ pc = "persist"
                      /\ ack = "ok"
                      /\ cycle_calls = 1
                      /\ db' = Append(db, recent_fire_alert)
       /\ (pc = "persist" /\ pc' = "sleep")
              => db' = Append(db, recent_fire_alert)]_vars

\* C5: a fetch that fails (exception or response not ok) ends the cycle at
\* the next sleep with no exception, no notifier call and the store and the
\* configuration of the loop unchanged.
C5_FetchFailureSkipsCycle ==
    [][(pc = "fetch" /\ http' \in {"exception", "not_ok"})
            => /\ pc' = "sleep"
               /\ error' = NoError
               /\ cycle_calls' = 0
               /\ UNCHANGED << file, db, calls, search_term, config >>]_vars

\* after a failed fetch of this process, a later cycle fetched a new
\* dangerous matching alert, notified it and got an ok acknowledgement
C5_Witness ==
    /\ fetch_failed
    /\ http = "ok"
    /\ pc = "persist"
    /\ cycle_calls = 1
    /\ ack = "ok"

\* C6: no store error (failed read in the dedupe check, failed read or
\* write in the append) ends the poll loop.
C6_StoreErrorNeverHalts ==
    ~(pc = "crashed" /\ error \in {"OSError", "JSONDecodeError"})

\* C7: no malformed block of a fetched page raises out of get_fire_alerts
\* into start: an ok fetch ends the cycle or selects a candidate.
C7_MalformedBlockNeverAborts ==
    [][(pc = "fetch" /\ http' = "ok")
            => /\ error' = NoError
               /\ pc' \in {"sleep", "classify"}]_vars

\* C8: after a send that was not acknowledged ok the candidate is absent
\* from the store, and in every later cycle that has the same record as
\* its candidate the classification passes and the dedupe check hands it
\* to the notifier again.
C8_RetrySameObservation ==
    [][/\ (calls' # calls /\ ack' # "ok")
              => ~SameTimeStored(db', recent_fire_alert)
       /\ (pc = "classify" /\ recent_fire_alert \in unacked /\ restarts' = restarts)
              => pc' = "dedupe"
       /\ (pc = "dedupe" /\ recent_fire_alert \in unacked /\ restarts' = restarts)
              => pc' = "notify"]_vars

\* C9: a completed add_fire_alert_to_db leaves a store in which the dedupe
\* check finds the record; a restart and the construction that follows it
\* keep every record the dedupe check found, and construction writes the
\* empty list only when the file is absent.
C9_DedupeSurvivesRestart ==
    [][/\ (pc = "persist" /\ pc' = "sleep")
              => /\ file' = "valid"
                 /\ check_fire_alert_in_db(db', recent_fire_alert)
       /\ ((pc = "init" \/ pc' = "init") /\ file = "valid")
              => /\ file' = "valid"
                 /\ \A i \in 1..Len(db) : check_fire_alert_in_db(db', db[i])
       /\ (pc = "init" /\ file = "absent") => (file' = "valid" /\ db' = <<>>)
       /\ (pc = "init" /\ file # "absent") => UNCHANGED << file, db >>]_vars

\* the process was restarted and constructed again, and the store still
\* holds a record that an earlier cycle appended
C9_Witness ==
    /\ restarts >= 1
    /\ pc = "sleep"
    /\ log = <<>>
    /\ file = "valid"
    /\ \E i \in 1..Len(db) :
          db[i] # OLD_ALERT /\ check_fire_alert_in_db(db, db[i])

\* the candidate of the current cycle is one the cycle skips: none (empty
\* parse result), not matching, not dangerous, or with an alert_time that
\* was stored when the cycle began
SkipCase ==
    \/ recent_fire_alert = NoAlert
    \/ ~Matches(recent_fire_alert)
    \/ ~Dangerous(recent_fire_alert)
    \/ SameTimeStored(store_before.data, recent_fire_alert)

\* C10: in a cycle that skips, the notifier has not been called and the
\* store is as it was when the cycle began.
C10_SkipCycleNoEffect ==
    SkipCase => (cycle_calls = 0 /\ Store(file, db) = store_before)

\* interest term "Makati", candidate location "QUEZON CITY": the cycle has
\* ended with no notifier call
C10_Witness ==
    /\ search_term = "Makati"
    /\ recent_fire_alert.alert_info = "QUEZON CITY"
    /\ pc = "sleep"
    /\ cycle_calls = 0
    /\ Store(file, db) = store_before

\* the block of scenario 1 as the specification writes it
B_SCENARIO1_STATED == <<"QUEZON CITY! ... : SECOND ALARM", "As of 10:00 AM">>

\* the block of scenario 1 in the format the parser reads
B_SCENARIO1 == <<"FIRE ALERT! Quezon City : 2ND ALARM", "As of 10:00 AM">>

C12_Listed ==
    { "1ST ALARM", "2ND ALARM", "3RD ALARM", "4TH ALARM", "5TH ALARM",
      "POSSITIVE ALARM", "POSITIVE ALARM", "GAS STOVE FIRE", "ELECTRICAL FIRE",
      "VEHICULAR FIRE", "RUBBISH FIRE", "CEILING FIRE", "VISIBLE SMOKE",
      "POST FIRE", "KITCHEN FIRE", "MATRESS FIRE", "FOR VERIFICATION" }

\* C12: a candidate that matches the interest terms passes the danger check
\* (the cycle goes on to the dedupe check) iff its category is one of the
\* listed ones; a candidate with any other category ends its cycle at the
\* danger check, and no step calls the notifier or changes the store for it.
C12_DangerIsListMembership ==
    [][/\ (pc = "classify" /\ Matches(recent_fire_alert))
              => (pc' = "dedupe" <=> recent_fire_alert.alert_type \in C12_Listed)
       /\ (pc = "classify" /\ recent_fire_alert.alert_type \notin C12_Listed)
              => pc' = "sleep"
       /\ (calls' # calls \/ db' # db \/ file' # file)
              => recent_fire_alert.alert_type \in C12_Listed]_vars

\* a matching candidate of category FIRE UNDER CONTROL ended its cycle at
\* the danger check, with no notifier call and the store untouched
C12_Witness ==
    /\ recent_fire_alert.alert_type = "FIRE UNDER CONTROL"
    /\ search_term = ""
    /\ pc = "sleep"
    /\ log = <<"INFO Recent Fire Alert", "INFO Alert type is not dangerous!">>
    /\ cycle_calls = 0
    /\ db = <<>>

\* the terms of a term string: its comma-separated pieces without the
\* blanks around them
C13_Terms(term_text) ==
    LET pieces == Split(term_text, ",")
    IN  [i \in 1..Len(pieces) |-> Strip(pieces[i])]

\* the term string is empty, or one of its terms occurs in the location
\* when letter case is ignored
C13_Expected(term_text, location) ==
    \/ term_text = ""
    \/ \E i \in 1..Len(C13_Terms(term_text)) :
          IsSubstr(Lower(C13_Terms(term_text)[i]), Lower(location))

\* C13: the interest check of a cycle fails (the cycle ends with "Search
\* term not found") iff the term string is not empty and none of its
\* comma-separated terms occurs in the candidate's location as a
\* case-insensitive substring; with the empty term string it never fails.
C13_InterestMatching ==
    [][pc = "classify"
            => /\ (pc' = "sleep" /\ log' = Append(log, "INFO Search term not found"))
                      <=> ~C13_Expected(search_term, recent_fire_alert.alert_info)
               /\ search_term = ""
                      => log' # Append(log, "INFO Search term not found")]_vars

\* the term string "qc, makati" matched the location "MAKATI  AYALA" by its
\* second term, which differs from the location in letter case
C13_Witness ==
    /\ search_term = "qc, makati"
    /\ recent_fire_alert.alert_info = "MAKATI  AYALA"
    /\ recent_fire_alert.alert_type = "3RD ALARM"
    /\ pc = "dedupe"

\* no notifier object is passed to the constructor, and the Pushover token
\* or user is absent or the notifier kind is not "pushover"
C14_BadConfig ==
    /\ ~config.notifier
    /\ \/ config.token = ""
       \/ config.user = ""
       \/ config.notifier_type # "pushover"

\* C14: with such a configuration the construction raises (AssertionError
\* for an absent credential, ValueError for an unsupported kind) and the
\* process never sleeps, fetches or notifies, whatever the restarts.
C14_ConfigErrorsFatal ==
    C14_BadConfig
        => /\ pc \in {"init", "crashed"}
           /\ pc = "crashed" => error \in {"AssertionError", "ValueError"}
           /\ cycles = 0
           /\ http = "none"
           /\ calls = 0
           /\ recent_fire_alert = NoAlert

\* the user key is absent: the construction has failed with AssertionError
\* (after it created the store file)
C14_Witness ==
    /\ config.user = ""
    /\ config.token # ""
    /\ config.notifier_type = "pushover"
    /\ ~config.notifier
    /\ pc = "crashed"
    /\ error = "AssertionError"
    /\ file = "valid"

\* C15: a kill of the process during add_fire_alert_to_db leaves a readable
\* store file that holds the complete sequence of before the append or the
\* complete sequence of after it.
C15_CrashSafeWrite ==
    [][(pc = "persist" /\ error' = "Killed")
            => /\ file' = "valid"
               /\ db' = db \/ db' = Append(db, recent_fire_alert)]_vars

\* the cycle has parsed the one block of its page without an exception
C16_Parsed == pc = "classify"

\* the first line of the block is <head>!<location>:<category> and the
\* candidate has the location and the category given
C16_FirstLineGives(head, location, category, alert_info, alert_type) ==
    page[1][1] = head \o "!" \o location \o ":" \o category
        => /\ recent_fire_alert.alert_info = alert_info
           /\ recent_fire_alert.alert_type = alert_type

C17_NoEmptyField ==
    /\ (pc \in {"classify", "dedupe", "notify", "persist", "sleep"}
            /\ recent_fire_alert # NoAlert)
           => /\ recent_fire_alert.alert_info # ""
              /\ recent_fire_alert.alert_type # ""
              /\ recent_fire_alert.alert_time # ""
    /\ \A i \in 1..Len(db) :
           /\ db[i].alert_info # ""
           /\ db[i].alert_type # ""
           /\ db[i].alert_time # ""

\* the record at position 0 of the parse result of the fetched page
C18_First == Parsed[page].data[1]

\* C18: in every cycle the notifier is called at most once and the store
\* grows by at most one record; the message of a call is the message of the
\* record at position 0 of the fetched page, in page order, and the record
\* an append adds is that record.
C18_OnlyIndexZero ==
    [][/\ cycle_calls' <= 1
       /\ Len(db') <= Len(store_before'.data) + 1
       /\ calls' # calls
              => /\ page # <<>>
                 /\ recent_fire_alert = C18_First
                 /\ message' = notification_message(C18_First)
       /\ Len(db') > Len(db)
              => /\ page # <<>>
                 /\ db' = Append(db, C18_First)]_vars

\* the page had FIRE OUT of 11:30 AM at position 0 and a new, matching,
\* dangerous record of 10:00 AM at position 1: the cycle ended with no
\* notifier call and the store as it was
C18_Witness ==
    /\ page = <<B_OUT, B_QC>>
    /\ search_term = ""
    /\ pc = "sleep"
    /\ recent_fire_alert.alert_type = "FIRE OUT"
    /\ cycle_calls = 0
    /\ file = "valid"
    /\ \A i \in 1..Len(db) : db[i].alert_time # "10:00 AM"
    /\ Store(file, db) = store_before

\* the steps of one cycle in the order sleep, fetch, evaluate (interest and
\* danger checks, then the dedupe check), notify, persist, each phase
\* followed by the next one or by the sleep of the next cycle
C19_CycleSteps ==
    { <<"init", "sleep">>, <<"sleep", "fetch">>, <<"fetch", "classify">>,
      <<"fetch", "sleep">>, <<"classify", "dedupe">>, <<"classify", "sleep">>,
      <<"dedupe", "notify">>, <<"dedupe", "sleep">>, <<"notify", "persist">>,
      <<"notify", "sleep">>, <<"persist", "sleep">> }

\* C19: every step of the process follows the phase order of the cycle; the
\* first fetch comes after a completed sleep; the store is read only for a
\* candidate that passed the interest and danger checks; and the loop ends
\* only by a failed construction or by the termination of the process from
\* outside, never by an outcome of a fetch, a notification or a store
\* access, so that every cycle returns to the sleep.
C19_PhaseOrder ==
    [][restarts' = restarts
            => /\ pc' # "crashed" => <<pc, pc'>> \in C19_CycleSteps
               /\ pc' = "fetch" => cycles' >= 1
               /\ pc' = "dedupe"
                      => (Matches(recent_fire_alert) /\ Dangerous(recent_fire_alert))
               /\ pc' = "crashed" => (pc = "init" \/ error' = "Killed")]_vars

====
